---- MODULE Spec2Model ----
(***************************************************************************)
(* Model of tproc (src/src/main.rs): a ledger that applies a stream of     *)
(* deposit / withdrawal / dispute / resolve / chargeback entries to        *)
(* per-client accounts and per-id transaction records, then writes one     *)
(* row per account.                                                        *)
(*                                                                         *)
(* Amounts are rust_decimal values in the source; the entries explored    *)
(* carry the non-negative amounts of Amounts (section 3 of the             *)
(* specification makes Entry.amount non-negative), far from the overflow   *)
(* of a 96-bit decimal.  Option<Value> is a sequence of length 0 (None) or *)
(* 1 (Some).  A HashMap is a function whose DOMAIN is the set of keys      *)
(* present.  Err(e) is the message of e.                                   *)
(***************************************************************************)
EXTENDS Integers, Sequences, FiniteSets, TLC

\* ---- bounds of the model ----
MaxEntries == 5

\* The client ids (u16) and transaction ids (u32) the entries explored carry.
Clients == {1, 2}
TxIds   == {1, 2}
\* Amounts carried by the entries explored: deposits of 10, withdrawals of 10
\* or 15 (the amounts of the scenario of section 8 of the specification).
Amounts(typ) == IF typ = "deposit" THEN {10} ELSE {10, 15}

None    == <<>>
Some(v) == <<v>>

\* ---- EntryType (main.rs 19-40) ----
EntryType == {"deposit", "withdrawal", "dispute", "resolve", "chargeback"}

is_tx(typ) == typ = "deposit" \/ typ = "withdrawal"
is_op(typ) == typ # "deposit" /\ typ # "withdrawal"

\* ---- EntryState (main.rs 42-56) ----
EntryState == {"New", "Processed", "Failed", "Disputed", "Resolved", "Chargeback"}

\* An Entry as csv deserialization produces it: state is skipped by serde and
\* takes its Default, New.
Entry(typ, client, id, amount) ==
    [typ |-> typ, client |-> client, id |-> id, amount |-> amount, state |-> "New"]

\* Account::default()
DefaultAccount == [available |-> 0, held |-> 0, locked |-> FALSE]

\* HashMap::insert: adds the key or overwrites the value stored under it.
Insert(map, k, v) == [x \in DOMAIN map \cup {k} |-> IF x = k THEN v ELSE map[x]]

\* The result of one call: the store after it and "ok" for Ok(()) or, for
\* Err, the message of the error.
Outcome(accs, txs, res) == [accounts |-> accs, transactions |-> txs, res |-> res]

\* ---- apply_tx (main.rs 100-128) ----

\* accounts.entry(client).or_insert_with(Default::default)
OrInsertAccount(accs, client) ==
    IF client \in DOMAIN accs THEN accs ELSE Insert(accs, client, DefaultAccount)

\* let res = acc.available - amount; if res < Value::zero()
InsufficientFunds_le(acc, amount) == acc.available - amount <= 0
InsufficientFunds(acc, amount) == acc.available - amount < 0

apply_tx(st, tx) ==
    LET accs == OrInsertAccount(st.accounts, tx.client)
        acc  == accs[tx.client]
    IN  IF tx.amount = None
        THEN Outcome(accs, st.transactions, "Expected amount associated")
        ELSE LET amount == tx.amount[1] IN
             CASE tx.typ = "deposit" ->
                    Outcome([accs EXCEPT ![tx.client].available = @ + amount],
                            Insert(st.transactions, tx.id, [tx EXCEPT !.state = "Processed"]),
                            "ok")
               [] tx.typ = "withdrawal" ->
                    IF InsufficientFunds(acc, amount)
                    THEN Outcome(accs, st.transactions, "Invalid withdrawal, not enough funds")
                    ELSE Outcome([accs EXCEPT ![tx.client].available = @ - amount],
                                 Insert(st.transactions, tx.id, [tx EXCEPT !.state = "Processed"]),
                                 "ok")
               [] OTHER -> Outcome(accs, st.transactions, "Invalid transaction")

\* ---- apply_op (main.rs 131-172) ----

\* ensure!(actual.client == op.client)
SameClient_any(actual, op) == TRUE
SameClient(actual, op) == actual.client = op.client

\* let amount = actual.amount: the amount of the stored transaction
OpAmount_entry(actual, op) == op.amount
OpAmount(actual, op) == actual.amount

\* ensure!(actual.state == Processed || actual.state == Resolved)
DisputeAllowed_any(actual) == actual.state \in {"Processed", "Resolved", "Disputed", "Chargeback"}
DisputeAllowed_once(actual) == actual.state = "Processed"
DisputeAllowed(actual) == actual.state = "Processed" \/ actual.state = "Resolved"

\* acc.held += amount; acc.available -= amount
DisputeAccount(acc, amount) ==
    [acc EXCEPT !.held = @ + amount, !.available = @ - amount]

\* acc.held -= amount; acc.available += amount
ResolveAccount_release(acc, amount) == [acc EXCEPT !.held = @ - amount]
ResolveAccount(acc, amount) ==
    [acc EXCEPT !.held = @ - amount, !.available = @ + amount]

\* acc.held -= amount; acc.locked = true
ChargebackAccount_keep(acc, amount) == [acc EXCEPT !.locked = TRUE]
ChargebackAccount_refund(acc, amount) ==
    [acc EXCEPT !.held = @ - amount, !.available = @ + amount, !.locked = TRUE]
ChargebackAccount_available(acc, amount) ==
    [acc EXCEPT !.available = @ - amount, !.locked = TRUE]
ChargebackAccount_nolock(acc, amount) == [acc EXCEPT !.held = @ - amount]
ChargebackAccount(acc, amount) ==
    [acc EXCEPT !.held = @ - amount, !.locked = TRUE]

apply_op(st, op) ==
    LET Err(e) == Outcome(st.accounts, st.transactions, e)
        Done(state, acc) ==
            Outcome([st.accounts EXCEPT ![op.client] = acc],
                    [st.transactions EXCEPT ![op.id].state = state],
                    "ok")
    IN  IF op.id \notin DOMAIN st.transactions THEN Err("Tx not found")
        ELSE LET actual == st.transactions[op.id] IN
        IF ~SameClient(actual, op) THEN Err("Operation referencing tx of a different client")
        ELSE IF op.client \notin DOMAIN st.accounts THEN Err("Client missing")
        ELSE LET acc == st.accounts[op.client] IN
        IF OpAmount(actual, op) = None THEN Err("Missing amount")
        ELSE LET amount == OpAmount(actual, op)[1] IN
        CASE op.typ = "dispute" ->
               IF ~is_tx(actual.typ) THEN Err("Attempting to dispute")
               ELSE IF ~DisputeAllowed(actual) THEN Err("Attempting to dispute tx in state")
               ELSE Done("Disputed", DisputeAccount(acc, amount))
          [] op.typ = "resolve" ->
               IF ~(acc.held >= amount) THEN Err("Client held funds missing")
               ELSE IF actual.state # "Disputed" THEN Err("Only disputed transactions can be resolved")
               ELSE Done("Resolved", ResolveAccount(acc, amount))
          [] op.typ = "chargeback" ->
               IF ~(acc.held >= amount) THEN Err("Client held funds missing")
               ELSE IF actual.state # "Disputed" THEN Err("Only disputed transactions can be charged back")
               ELSE Done("Chargeback", ChargebackAccount(acc, amount))
          [] OTHER -> Err("Invalid operation")

\* ---- apply (main.rs 92-98) ----
apply(st, tx) == IF is_tx(tx.typ) THEN apply_tx(st, tx) ELSE apply_op(st, tx)

\* ---- write (main.rs 175-196): one AccountOut row per account ----
AccountOut(accs) ==
    { [client |-> c, available |-> accs[c].available, held |-> accs[c].held,
       total |-> accs[c].available + accs[c].held, locked |-> accs[c].locked]
      : c \in DOMAIN accs }

\* ---- process_stream and main (main.rs 199-228) ----
VARIABLES
    accounts,      \* State.accounts: client -> Account
    transactions,  \* State.transactions: tx id -> stored Entry
    pc,            \* position of main: "running" | "aborted" | "done" | "written"
    output,        \* rows written to stdout by State::write
    result,        \* what the latest iteration got: "ok" or the message of the error
    n,             \* number of records read from the stream so far
    deposited,     \* per client: sum of the amounts of deposits that returned Ok
    withdrawn,     \* per client: sum of the amounts of withdrawals that returned Ok
    chargedback,   \* per client: sum of the amounts charged back with Ok
    cbTx,          \* tx ids on which a chargeback has returned Ok
    cbClients,     \* clients whose chargeback has returned Ok
    trip,          \* <<1, t, a>>: the latest call was an Ok dispute of tx t, on account a;
                   \* <<2, t, a>>: an Ok resolve of t right after that dispute;
                   \* else <<0, 0, DefaultAccount>>
    cycle,         \* <<1, t>>: the latest call was an Ok resolve of tx t;
                   \* <<2, t>>: an Ok dispute of t right after that resolve;
                   \* <<3, t>>: an Ok chargeback of t right after that dispute; else <<0, 0>>
    scen           \* length of the prefix of Scenario the stream has been so far

vars == <<accounts, transactions, pc, output, result, n,
          deposited, withdrawn, chargedback, cbTx, cbClients, trip, cycle, scen>>

\* The records a stream can hold: fund-moving rows carry an amount or none
\* (flexible column count); operation rows carry none or a stray one.
TxEntries(typ) ==
    { Entry(typ, c, t, a) : c \in Clients, t \in TxIds,
                             a \in {None} \cup {Some(v) : v \in Amounts(typ)} }
OpEntries(typ) ==
    { Entry(typ, c, t, a) : c \in Clients, t \in TxIds, a \in {None, Some(15)} }

\* The input of section 8's concrete scenario.
Scenario ==
    << Entry("deposit", 1, 1, Some(10)),
       Entry("withdrawal", 1, 2, Some(15)),
       Entry("dispute", 1, 1, None),
       Entry("resolve", 1, 1, None),
       Entry("dispute", 1, 1, None),
       Entry("chargeback", 1, 1, None) >>

NoEntry == [typ |-> "none", client |-> 0, id |-> 0, amount |-> None, state |-> "New"]

\* State::default(): two empty maps.
NoAccounts     == [c \in {} |-> DefaultAccount]
NoTransactions == [t \in {} |-> NoEntry]

\* State::default(), nothing read, nothing written.
Init ==
    /\ accounts = NoAccounts
    /\ transactions = NoTransactions
    /\ pc = "running"
    /\ output = {}
    /\ result = "ok"
    /\ n = 0
    /\ deposited = [c \in Clients |-> 0]
    /\ withdrawn = [c \in Clients |-> 0]
    /\ chargedback = [c \in Clients |-> 0]
    /\ cbTx = {}
    /\ cbClients = {}
    /\ trip = <<0, 0, DefaultAccount>>
    /\ cycle = <<0, 0>>
    /\ scen = 0

\* The amount a successful call moved: the entry's own for a deposit or a
\* withdrawal, the stored one for an operation.
StoredAmount(e) ==
    IF is_tx(e.typ) THEN e.amount[1] ELSE transactions[e.id].amount[1]

\* The streams explored are those of at most MaxEntries records, and Scenario.
IsScenarioStep(e) == scen = n /\ n < Len(Scenario) /\ e = Scenario[n + 1]

\* One iteration of the loop of process_stream on a record that deserializes
\* to the Entry e: state.apply(e), the error (if any) printed and dropped.
Step(e) ==
    LET r == apply([accounts |-> accounts, transactions |-> transactions], e)
        ok == r.res = "ok"
    IN  /\ pc = "running"
        /\ n < MaxEntries \/ IsScenarioStep(e)
        /\ accounts' = r.accounts
        /\ transactions' = r.transactions
        /\ result' = r.res
        /\ n' = n + 1
        /\ deposited' = IF ok /\ e.typ = "deposit"
                        THEN [deposited EXCEPT ![e.client] = @ + StoredAmount(e)]
                        ELSE deposited
        /\ withdrawn' = IF ok /\ e.typ = "withdrawal"
                        THEN [withdrawn EXCEPT ![e.client] = @ + StoredAmount(e)]
                        ELSE withdrawn
        /\ chargedback' = IF ok /\ e.typ = "chargeback"
                          THEN [chargedback EXCEPT ![e.client] = @ + StoredAmount(e)]
                          ELSE chargedback
        /\ cbTx' = IF ok /\ e.typ = "chargeback" THEN cbTx \cup {e.id} ELSE cbTx
        /\ cbClients' = IF ok /\ e.typ = "chargeback"
                        THEN cbClients \cup {e.client} ELSE cbClients
        /\ trip' = CASE ok /\ e.typ = "dispute" -> <<1, e.id, accounts[e.client]>>
                      [] ok /\ e.typ = "resolve" /\ trip[1] = 1 /\ trip[2] = e.id ->
                           <<2, e.id, trip[3]>>
                      [] OTHER -> <<0, 0, DefaultAccount>>
        /\ cycle' = CASE ok /\ e.typ = "resolve" -> <<1, e.id>>
                       [] ok /\ e.typ = "dispute" /\ cycle = <<1, e.id>> -> <<2, e.id>>
                       [] ok /\ e.typ = "chargeback" /\ cycle = <<2, e.id>> -> <<3, e.id>>
                       [] OTHER -> <<0, 0>>
        /\ scen' = IF IsScenarioStep(e) THEN scen + 1 ELSE scen
        /\ UNCHANGED <<pc, output>>

\* The iteration, by the type of the record read.
Deposit ==
    \E e \in TxEntries("deposit") : is_tx(e.typ) /\ Step(e)

Withdrawal ==
    \E e \in TxEntries("withdrawal") : is_tx(e.typ) /\ Step(e)

Dispute ==
    \E e \in OpEntries("dispute") : is_op(e.typ) /\ Step(e)

Resolve ==
    \E e \in OpEntries("resolve") : is_op(e.typ) /\ Step(e)

Chargeback ==
    \E e \in OpEntries("chargeback") : is_op(e.typ) /\ Step(e)

\* A record that does not deserialize to an Entry: `let tx: Entry = tx?`
\* returns the error from process_stream, which drops its State (and with it
\* what is recorded about that State), and main returns the error in turn.
Malformed ==
    /\ pc = "running"
    /\ n < MaxEntries
    /\ pc' = "aborted"
    /\ result' = "csv deserialize error"
    /\ n' = n + 1
    /\ accounts' = NoAccounts
    /\ transactions' = NoTransactions
    /\ deposited' = [c \in Clients |-> 0]
    /\ withdrawn' = [c \in Clients |-> 0]
    /\ chargedback' = [c \in Clients |-> 0]
    /\ cbTx' = {}
    /\ cbClients' = {}
    /\ trip' = <<0, 0, DefaultAccount>>
    /\ cycle' = <<0, 0>>
    /\ UNCHANGED <<output, scen>>

\* The reader is exhausted: process_stream returns Ok(state).
EndOfStream ==
    /\ pc = "running"
    /\ pc' = "done"
    /\ UNCHANGED <<accounts, transactions, output, result, n,
                   deposited, withdrawn, chargedback, cbTx, cbClients, trip, cycle, scen>>

\* main: state.write(stdout)
Write ==
    /\ pc = "done"
    /\ output' = AccountOut(accounts)
    /\ pc' = "written"
    /\ UNCHANGED <<accounts, transactions, result, n,
                   deposited, withdrawn, chargedback, cbTx, cbClients, trip, cycle, scen>>

Next ==
    \/ Deposit
    \/ Withdrawal
    \/ Dispute
    \/ Resolve
    \/ Chargeback
    \/ Malformed
    \/ EndOfStream
    \/ Write

Spec == Init /\ [][Next]_vars

TypeOK ==
    /\ DOMAIN accounts \subseteq Clients
    /\ DOMAIN transactions \subseteq TxIds
    /\ pc \in {"running", "aborted", "done", "written"}
    /\ n \in 0..(MaxEntries + Len(Scenario))

\* ---------------------------------------------------------------------
\* Properties
\* ---------------------------------------------------------------------

\* The account a call for client c works on: as stored, or as or_insert
\* would create it.
AccountOf(accs, c) == IF c \in DOMAIN accs THEN accs[c] ELSE DefaultAccount

Total(acc) == acc.available + acc.held

FundMoving == TxEntries("deposit") \cup TxEntries("withdrawal")
Operations == OpEntries("dispute") \cup OpEntries("resolve") \cup OpEntries("chargeback")

\* C1: conservation law. For every account, available + held never exceeds
\* the sum of the client's deposits applied with Ok, minus the sum of the
\* client's withdrawals applied with Ok, minus the sum charged back.
C1_Conservation ==
    \A c \in DOMAIN accounts :
        Total(accounts[c]) <= deposited[c] - withdrawn[c] - chargedback[c]

\* A client with a deposit, a withdrawal and a chargeback behind it.
C1_Witness ==
    \E c \in DOMAIN accounts :
        deposited[c] > 0 /\ withdrawn[c] > 0 /\ chargedback[c] > 0

\* C2: a withdrawal carrying an amount is rejected iff available - amount of
\* the client's account is strictly negative when it is applied; rejected, it
\* leaves available, held and locked as they were; accepted, it decreases
\* available by exactly the amount.
C2_WithdrawalRejectedIff ==
    [][\A e \in TxEntries("withdrawal") :
          (e.amount # None /\ Step(e)) =>
             LET before == AccountOf(accounts, e.client)
                 after  == accounts'[e.client]
                 amount == e.amount[1]
             IN  /\ (result' # "ok") <=> (before.available - amount < 0)
                 /\ (result' # "ok") => after = before
                 /\ (result' = "ok") => after.available = before.available - amount
      ]_vars

\* A withdrawal has just been refused on an account that holds funds.
C2_Witness ==
    /\ result = "Invalid withdrawal, not enough funds"
    /\ \E c \in DOMAIN accounts : accounts[c].available > 0

\* C3: a deposit or withdrawal whose tx id is already stored is rejected: the
\* stored record is not overwritten and no balance changes.
C3_DuplicateRejected ==
    [][\A e \in FundMoving :
          (e.id \in DOMAIN transactions /\ Step(e)) =>
             /\ result' # "ok"
             /\ transactions' = transactions
             /\ AccountOf(accounts', e.client) = AccountOf(accounts, e.client)
      ]_vars

\* C4: chargeback is terminal. Once a chargeback on a tx id has returned Ok,
\* every later dispute, resolve or chargeback naming that id is rejected and
\* leaves the accounts and the transaction records unchanged.
C4_ChargebackTerminal ==
    [][\A e \in Operations :
          (e.id \in cbTx /\ Step(e)) =>
             /\ result' # "ok"
             /\ accounts' = accounts
             /\ transactions' = transactions
      ]_vars

\* C5: a dispute naming a stored transaction whose status is neither
\* Processed nor Resolved is rejected and changes no account and no status.
C5_DisputeBadStatusRejected ==
    [][\A e \in OpEntries("dispute") :
          (/\ e.id \in DOMAIN transactions
           /\ transactions[e.id].state \notin {"Processed", "Resolved"}
           /\ Step(e)) =>
             /\ result' # "ok"
             /\ accounts' = accounts
             /\ transactions' = transactions
      ]_vars

\* A dispute has just been refused for the status of its transaction, which
\* is Disputed or Chargeback.
C5_Witness ==
    /\ result = "Attempting to dispute tx in state"
    /\ \E t \in DOMAIN transactions : transactions[t].state \in {"Disputed", "Chargeback"}

\* C6: reentrant dispute cycle. Right after an Ok resolve of a transaction, a
\* dispute of it by its client returns Ok and leaves it Disputed; right after
\* that dispute, a chargeback of it by its client returns Ok and locks the
\* account.
C6_ReentrantCycle ==
    [][/\ \A e \in OpEntries("dispute") :
            (/\ cycle = <<1, e.id>>
             /\ e.client = transactions[e.id].client
             /\ Step(e)) =>
               /\ result' = "ok"
               /\ transactions'[e.id].state = "Disputed"
       /\ \A e \in OpEntries("chargeback") :
            (/\ cycle = <<2, e.id>>
             /\ e.client = transactions[e.id].client
             /\ Step(e)) =>
               /\ result' = "ok"
               /\ transactions'[e.id].state = "Chargeback"
               /\ accounts'[e.client].locked = TRUE
      ]_vars

\* The whole cycle has just run: resolve, dispute, chargeback, all Ok.
C6_Witness ==
    /\ cycle[1] = 3
    /\ result = "ok"
    /\ accounts[transactions[cycle[2]].client].locked

\* C7: a failure on one entry never aborts the stream: after an entry has
\* failed with whatever error (a malformed entry included), main is still
\* reading, or has read the stream to its end, or has written the snapshot.
C7_FailureNeverAborts ==
    result # "ok" => pc \in {"running", "done", "written"}

\* C8: once an account is locked, every later deposit or withdrawal for its
\* client is rejected, changes neither available nor held, and stores no
\* transaction.
C8_LockedRejectsFundMoving ==
    [][\A e \in FundMoving :
          (/\ e.client \in DOMAIN accounts
           /\ accounts[e.client].locked
           /\ Step(e)) =>
             /\ result' # "ok"
             /\ accounts'[e.client].available = accounts[e.client].available
             /\ accounts'[e.client].held = accounts[e.client].held
             /\ transactions' = transactions
      ]_vars

\* C9: the total available + held of every account is never negative.
C9_TotalNeverNegative ==
    \A c \in DOMAIN accounts : Total(accounts[c]) >= 0

\* C10: the concrete scenario. From the empty store, the six entries of
\* Scenario give client 1 (available, held) = (10,0), (10,0) with the
\* withdrawal rejected, (0,10), (10,0), (0,10) and at last (0,0) locked, and
\* the snapshot is the single row 1,0,0,0,true.
C10_Scenario ==
    (scen = n /\ n >= 1) =>
        LET a == accounts[1]
            bal == <<a.available, a.held>>
        IN  /\ DOMAIN accounts = {1}
            /\ n = 1 => bal = <<10, 0>> /\ result = "ok"
            /\ n = 2 => bal = <<10, 0>> /\ result # "ok"
            /\ n = 3 => bal = <<0, 10>> /\ result = "ok"
            /\ n = 4 => bal = <<10, 0>> /\ result = "ok"
            /\ n = 5 => bal = <<0, 10>> /\ result = "ok"
            /\ n < 6 => ~a.locked
            /\ n = 6 => /\ bal = <<0, 0>>
                        /\ result = "ok"
                        /\ a.locked
                        /\ pc = "written" =>
                             output = {[client |-> 1, available |-> 0, held |-> 0,
                                        total |-> 0, locked |-> TRUE]}

\* The scenario has run to its end and the snapshot is written.
C10_Witness == scen = Len(Scenario) /\ n = scen /\ pc = "written"

\* C11: a dispute, resolve or chargeback whose client differs from the client
\* recorded on the transaction it names, or that names no stored transaction,
\* is rejected; it changes no account and no transaction, and creates no
\* account.
C11_ForeignOrMissingRejected ==
    [][\A e \in Operations :
          (/\ \/ e.id \notin DOMAIN transactions
              \/ transactions[e.id].client # e.client
           /\ Step(e)) =>
             /\ result' # "ok"
             /\ accounts' = accounts
             /\ transactions' = transactions
      ]_vars

\* An operation on another client's transaction has just been refused, that
\* transaction being one an operation of its owner would have acted on.
C11_Witness ==
    /\ result = "Operation referencing tx of a different client"
    /\ \E t \in DOMAIN transactions : transactions[t].state \in {"Processed", "Disputed"}

\* C12: a withdrawal rejected for insufficient funds still stores a record of
\* its tx id, with status Failed.
C12_FailedWithdrawalStored ==
    [][\A e \in TxEntries("withdrawal") :
          (/\ e.amount # None
           /\ e.id \notin DOMAIN transactions
           /\ AccountOf(accounts, e.client).available - e.amount[1] < 0
           /\ Step(e)) =>
             /\ e.id \in DOMAIN transactions'
             /\ transactions'[e.id].state = "Failed"
      ]_vars

\* C13: a successful dispute moves exactly the amount stored on the
\* transaction it names, whatever amount the dispute entry carries, from
\* available to held; the total and locked are unchanged and the transaction
\* becomes Disputed; there is no balance precondition.
C13_DisputeMovesStoredAmount ==
    [][\A e \in OpEntries("dispute") :
          (Step(e) /\ result' = "ok") =>
             LET amount == transactions[e.id].amount[1]
                 before == accounts[e.client]
                 after  == accounts'[e.client]
             IN  /\ after.available = before.available - amount
                 /\ after.held = before.held + amount
                 /\ Total(after) = Total(before)
                 /\ after.locked = before.locked
                 /\ transactions'[e.id].state = "Disputed"
                 /\ transactions'[e.id].amount = transactions[e.id].amount
      ]_vars

\* A dispute has just returned Ok on a withdrawal and has driven available
\* below zero.
C13_Witness ==
    /\ trip[1] = 1
    /\ transactions[trip[2]].typ = "withdrawal"
    /\ transactions[trip[2]].state = "Disputed"
    /\ accounts[transactions[trip[2]].client].available < 0

\* C14: dispute/resolve round trip. Right after an Ok dispute of a
\* transaction, a resolve of it by its client returns Ok, gives the account
\* the available, held and locked it had before the dispute and leaves the
\* transaction Resolved; a resolve of a stored transaction that is not
\* Disputed is rejected and changes nothing.
C14_DisputeResolveRoundTrip ==
    [][\A e \in OpEntries("resolve") :
          /\ (/\ trip[1] = 1
              /\ trip[2] = e.id
              /\ e.client = transactions[e.id].client
              /\ Step(e)) =>
                /\ result' = "ok"
                /\ accounts'[e.client] = trip[3]
                /\ transactions'[e.id].state = "Resolved"
          /\ (/\ e.id \in DOMAIN transactions
              /\ transactions[e.id].state # "Disputed"
              /\ Step(e)) =>
                /\ result' # "ok"
                /\ accounts' = accounts
                /\ transactions' = transactions
      ]_vars

\* A dispute and then a resolve of the same transaction have just returned
\* Ok, on an account that held other disputed funds meanwhile.
C14_Witness ==
    /\ trip[1] = 2
    /\ result = "ok"
    /\ transactions[trip[2]].state = "Resolved"
    /\ accounts[transactions[trip[2]].client] = trip[3]
    /\ trip[3].held > 0

\* C15: a successful chargeback decreases held by exactly the stored amount,
\* leaves available unchanged, locks the account and leaves the transaction
\* Chargeback, and it happens on a Disputed transaction only; a chargeback of
\* a stored transaction that is not Disputed is rejected and changes nothing.
C15_ChargebackEffect ==
    [][\A e \in OpEntries("chargeback") :
          /\ (Step(e) /\ result' = "ok") =>
                LET amount == transactions[e.id].amount[1]
                    before == accounts[e.client]
                    after  == accounts'[e.client]
                IN  /\ transactions[e.id].state = "Disputed"
                    /\ after.held = before.held - amount
                    /\ after.available = before.available
                    /\ after.locked = TRUE
                    /\ transactions'[e.id].state = "Chargeback"
          /\ (/\ e.id \in DOMAIN transactions
              /\ transactions[e.id].state # "Disputed"
              /\ Step(e)) =>
                /\ result' # "ok"
                /\ accounts' = accounts
                /\ transactions' = transactions
      ]_vars

\* A chargeback has returned Ok: it has emptied held, locked the account and
\* left the other funds of the client available.
C15_Witness ==
    \E c \in cbClients :
        /\ accounts[c].locked
        /\ accounts[c].held = 0
        /\ accounts[c].available > 0
        /\ \E t \in DOMAIN transactions :
              transactions[t].client = c /\ transactions[t].state = "Chargeback"

\* C16: a deposit or withdrawal with no amount is rejected with the
\* missing-amount error and the store after the call equals the store before
\* it: no account is created, no record is inserted, no balance changes.
C16_MissingAmountNoChange ==
    [][\A e \in FundMoving :
          (e.amount = None /\ Step(e)) =>
             /\ result' = "Expected amount associated"
             /\ accounts' = accounts
             /\ transactions' = transactions
      ]_vars

\* The status changes a stored record may undergo.
Lifecycle ==
    { <<"Processed", "Disputed">>, <<"Resolved", "Disputed">>,
      <<"Disputed", "Resolved">>, <<"Disputed", "Chargeback">> }

\* C17: transaction status lifecycle. The status stored for a tx id changes
\* only along Processed->Disputed, Resolved->Disputed, Disputed->Resolved and
\* Disputed->Chargeback (so never out of Failed or Chargeback), and no stored
\* record has status New.
C17_StatusLifecycle ==
    [][/\ \A t \in DOMAIN transactions' : transactions'[t].state # "New"
       /\ \A t \in DOMAIN transactions \cap DOMAIN transactions' :
            \/ transactions'[t].state = transactions[t].state
            \/ <<transactions[t].state, transactions'[t].state>> \in Lifecycle
      ]_vars

RECURSIVE SumAmounts(_, _)
\* The sum of the stored amounts of the transactions of ids.
SumAmounts(txs, ids) ==
    IF ids = {} THEN 0
    ELSE LET t == CHOOSE x \in ids : TRUE
         IN  txs[t].amount[1] + SumAmounts(txs, ids \ {t})

\* The ids of the stored transactions of client c that are Disputed.
DisputedOf(txs, c) ==
    { t \in DOMAIN txs : txs[t].client = c /\ txs[t].state = "Disputed" }

\* C18: held-funds invariant. For every client, held equals the sum of the
\* stored amounts of the client's transactions that are Disputed.
C18_HeldIsSumOfDisputed ==
    \A c \in DOMAIN accounts :
        accounts[c].held = SumAmounts(transactions, DisputedOf(transactions, c))

\* C19: lock permanence. An account is created unlocked; it is locked iff a
\* chargeback of its client has returned Ok; once locked it stays locked.
C19_LockPermanence ==
    [][\A c \in DOMAIN accounts' :
          /\ accounts'[c].locked <=> c \in cbClients'
          /\ c \notin DOMAIN accounts => ~accounts'[c].locked
          /\ (c \in DOMAIN accounts /\ accounts[c].locked) => accounts'[c].locked
      ]_vars

\* An account locked by a chargeback is still locked after a later dispute
\* of its client has returned Ok.
C19_Witness ==
    /\ trip[1] = 1
    /\ transactions[trip[2]].client \in cbClients
    /\ accounts[transactions[trip[2]].client].locked

\* C20: client isolation. An entry of client c, accepted or not, leaves the
\* account of every other client unchanged and changes no stored transaction
\* of another client; a dispute, resolve or chargeback creates no account and
\* no record.
C20_ClientIsolation ==
    [][\A e \in FundMoving \cup Operations :
          Step(e) =>
             /\ \A c \in Clients \ {e.client} :
                  /\ c \in DOMAIN accounts' <=> c \in DOMAIN accounts
                  /\ c \in DOMAIN accounts => accounts'[c] = accounts[c]
             /\ \A t \in DOMAIN transactions :
                  transactions[t].client # e.client =>
                     /\ t \in DOMAIN transactions'
                     /\ transactions'[t] = transactions[t]
             /\ is_op(e.typ) =>
                  /\ DOMAIN accounts' = DOMAIN accounts
                  /\ DOMAIN transactions' = DOMAIN transactions
      ]_vars

====
